---- MODULE Spec2Model ----
(***************************************************************************)
(* Model of the /partner_broadcast command handler of src/src/app.py:      *)
(* authorization, text normalisation, CONFIRM: parsing, the configuration  *)
(* guard, the preview branch and the confirmed fan-out loop.               *)
(*                                                                         *)
(* Strings that the handler inspects character by character (the command   *)
(* text) are sequences of one-character tokens; identifiers and fixed      *)
(* response texts are TLA+ strings.                                        *)
(***************************************************************************)
EXTENDS Integers, Sequences, FiniteSets, TLC

\* ---------------------------------------------------------------- bounds
MaxChannels == 2        \* longest configured destination list explored
MaxPad == 1             \* longest run of blanks around a text and after its prefix

\* ------------------------------------------------------------ input data
UserIds == {"U1", "U2"}
AllowedCandidates == {"U1"}     \* user ids the allow-list is drawn from
ChannelIds == {"C1", "C2"}
None == "None"

\* U+FB01 LATIN SMALL LIGATURE FI, one character whose upper case is "FI"
LigFi == "<U+FB01>"

Whitespace == {" "}

Pad(n) == [i \in 1..n |-> " "]

Prefixes ==
    { <<>>,
      <<"C", "O", "N", "F", "I", "R", "M", ":">>,
      <<"c", "o", "n", "f", "i", "r", "m", ":">>,
      <<"C", "o", "n", "f", "i", "r", "m", ":">>,
      <<"c", "o", "n", LigFi, "r", "m", ":">> }

Bodies == { <<>>, <<"h", "i">> }

\* blanks around the whole text (none or MaxPad) and between the prefix and
\* the body (up to MaxPad)
Texts ==
    { Pad(o) \o p \o Pad(m) \o b \o Pad(o) :
        o \in {0, MaxPad}, p \in Prefixes, m \in 0..MaxPad, b \in Bodies }

\* the "text" entry of the command payload: absent, or any text
NoText == [ present |-> FALSE, value |-> <<>> ]
RawTexts == {NoText} \cup { [ present |-> TRUE, value |-> s ] : s \in Texts }

RECURSIVE SeqsUpTo(_, _)
SeqsUpTo(S, n) ==
    IF n = 0 THEN { <<>> }
    ELSE LET shorter == SeqsUpTo(S, n - 1)
         IN  shorter \cup { Append(s, x) : s \in { q \in shorter : Len(q) = n - 1 }, x \in S }

\* ------------------------------------------------------ string primitives
\* str.upper() of one character (the result may be longer than one character)
CharUpper(c) ==
    CASE c = "c" -> <<"C">>
      [] c = "o" -> <<"O">>
      [] c = "n" -> <<"N">>
      [] c = "f" -> <<"F">>
      [] c = "i" -> <<"I">>
      [] c = "r" -> <<"R">>
      [] c = "m" -> <<"M">>
      [] c = "h" -> <<"H">>
      [] c = LigFi -> <<"F", "I">>
      [] OTHER -> <<c>>

RECURSIVE upper(_)
upper(s) == IF s = <<>> THEN <<>> ELSE CharUpper(Head(s)) \o upper(Tail(s))

RECURSIVE lstrip(_)
lstrip(s) == IF s # <<>> /\ Head(s) \in Whitespace THEN lstrip(Tail(s)) ELSE s

RECURSIVE rstrip(_)
rstrip(s) ==
    IF s # <<>> /\ s[Len(s)] \in Whitespace THEN rstrip(SubSeq(s, 1, Len(s) - 1)) ELSE s

strip(s) == rstrip(lstrip(s))

startswith(s, p) == Len(s) >= Len(p) /\ SubSeq(s, 1, Len(p)) = p

\* s[n:]
slice_from(s, n) == SubSeq(s, n + 1, Len(s))

RECURSIVE join(_)
join(ids) ==
    IF ids = <<>> THEN ""
    ELSE IF Len(ids) = 1 THEN ids[1]
    ELSE ids[1] \o ", " \o join(Tail(ids))

\* ---------------------------------------------------------------- state
VARIABLES
    BROADCAST_CHANNEL_IDS,  \* configured destinations, in order
    ALLOWED_BROADCASTERS,   \* configured user ids; empty = unrestricted
    pc,                     \* "idle", "loop" (inside the for loop), "returned"
    body,                   \* the command payload of the current invocation
    acks,                   \* ack() calls of the current invocation
    text_raw,               \* local: trimmed argument
    is_confirm,             \* local
    text,                   \* local: message body
    idx,                    \* destinations the for loop has gone through
    sent,                   \* local
    failed,                 \* local
    responses,              \* respond() calls of the current invocation
    calls,                  \* chat_postMessage / time.sleep calls of the current invocation
    previews                \* history: <<user, message>> pairs shown in a preview so far

vars == << BROADCAST_CHANNEL_IDS, ALLOWED_BROADCASTERS, pc, body, acks, text_raw,
           is_confirm, text, idx, sent, failed, responses, calls, previews >>

config == << BROADCAST_CHANNEL_IDS, ALLOWED_BROADCASTERS >>

confirm_prefix == <<"C", "O", "N", "F", "I", "R", "M", ":">>

RejectedMsg == "You are not allowed to use /partner_broadcast."
UsageMsg == "Usage: Preview / Confirm"
EmptyAfterConfirmMsg == "Your message is empty after the CONFIRM prefix."
NoChannelsMsg == "No broadcast channels are configured."

\* -------------------------------------------------------- pure functions
\* mutant: the "empty allow-list means unrestricted" case is forgotten
user_is_allowed_strict(user_id) == user_id \in ALLOWED_BROADCASTERS

user_is_allowed(user_id) ==
    IF ALLOWED_BROADCASTERS = {} THEN TRUE
    ELSE user_id \in ALLOWED_BROADCASTERS

\* (body.get("text") or "").strip()
get_text_raw(b) == strip(IF b.text.present THEN b.text.value ELSE <<>>)

parse_is_confirm(raw) == startswith(upper(raw), confirm_prefix)

parse_text(raw) ==
    IF parse_is_confirm(raw) THEN strip(slice_from(raw, Len(confirm_prefix)))
    ELSE raw

\* mutant: the preview counts distinct destinations instead of list entries
preview_response_distinct(t) ==
    [ kind |-> "preview",
      text |-> t,
      count |-> Cardinality({ BROADCAST_CHANNEL_IDS[i] : i \in DOMAIN BROADCAST_CHANNEL_IDS }),
      channels_summary |-> join(BROADCAST_CHANNEL_IDS),
      confirm_command |-> confirm_prefix \o <<" ">> \o t ]

preview_response(t) ==
    [ kind |-> "preview",
      text |-> t,
      count |-> Len(BROADCAST_CHANNEL_IDS),
      channels_summary |-> join(BROADCAST_CHANNEL_IDS),
      confirm_command |-> confirm_prefix \o <<" ">> \o t ]

summary_response(n, f) ==
    [ kind |-> "summary",
      sent |-> n,
      failed |-> IF f # <<>> THEN << [ count |-> Len(f), channels |-> join(f) ] >> ELSE <<>> ]

fixed_response(m) == [ kind |-> "fixed", msg |-> m ]

post_call(channel_id, outcome) ==
    [ type |-> "chat_postMessage", channel |-> channel_id, text |-> text, outcome |-> outcome ]

sleep_call == [ type |-> "sleep" ]

\* ------------------------------------------------------------------ Init
Init ==
    /\ BROADCAST_CHANNEL_IDS \in SeqsUpTo(ChannelIds, MaxChannels)
    /\ ALLOWED_BROADCASTERS \in SUBSET AllowedCandidates
    /\ pc = "idle"
    /\ body = [ user_id |-> None, text |-> NoText ]
    /\ acks = 0
    /\ text_raw = <<>>
    /\ is_confirm = FALSE
    /\ text = <<>>
    /\ idx = 0
    /\ sent = 0
    /\ failed = <<>>
    /\ responses = <<>>
    /\ calls = <<>>
    /\ previews = {}

\* --------------------------------------------------------------- actions
\* mutant: the preview branch does not return
branch_preview_falls_through(user_id, raw) ==
    IF ~user_is_allowed(user_id) THEN "rejected"
    ELSE IF raw = <<>> THEN "usage"
    ELSE IF parse_text(raw) = <<>> THEN "empty_after_confirm"
    ELSE IF BROADCAST_CHANNEL_IDS = <<>> THEN "no_channels"
    ELSE "broadcast"

\* mutant: the preview is returned before the destinations are looked at
branch_preview_before_guard(user_id, raw) ==
    IF ~user_is_allowed(user_id) THEN "rejected"
    ELSE IF raw = <<>> THEN "usage"
    ELSE IF parse_text(raw) = <<>> THEN "empty_after_confirm"
    ELSE IF ~parse_is_confirm(raw) THEN "preview"
    ELSE IF BROADCAST_CHANNEL_IDS = <<>> THEN "no_channels"
    ELSE "broadcast"

\* mutant: the destinations are looked at before the message body
branch_guard_before_body(user_id, raw) ==
    IF ~user_is_allowed(user_id) THEN "rejected"
    ELSE IF raw = <<>> THEN "usage"
    ELSE IF BROADCAST_CHANNEL_IDS = <<>> THEN "no_channels"
    ELSE IF parse_text(raw) = <<>> THEN "empty_after_confirm"
    ELSE IF ~parse_is_confirm(raw) THEN "preview"
    ELSE "broadcast"

\* the if-chain of the handler up to the loop: which exit the invocation takes
branch(user_id, raw) ==
    IF ~user_is_allowed(user_id) THEN "rejected"
    ELSE IF raw = <<>> THEN "usage"
    ELSE IF parse_text(raw) = <<>> THEN "empty_after_confirm"
    ELSE IF BROADCAST_CHANNEL_IDS = <<>> THEN "no_channels"
    ELSE IF ~parse_is_confirm(raw) THEN "preview"
    ELSE "broadcast"

\* the handler from its entry to its first return or to the start of the loop
Handle(user_id, raw_text) ==
    LET b == [ user_id |-> user_id, text |-> raw_text ]
        raw == get_text_raw(b)
        br == branch(user_id, raw)
        parsed == br \notin {"rejected", "usage"}
        t == IF parsed THEN parse_text(raw) ELSE <<>>
    IN
    /\ pc = "idle"
    /\ body' = b
    /\ acks' = 1
    /\ text_raw' = raw
    /\ is_confirm' = IF parsed THEN parse_is_confirm(raw) ELSE FALSE
    /\ text' = t
    /\ idx' = 0
    /\ sent' = 0
    /\ failed' = <<>>
    /\ calls' = <<>>
    /\ UNCHANGED config
    /\ pc' = IF br = "broadcast" THEN "loop" ELSE "returned"
    /\ responses' =
          CASE br = "rejected" -> << fixed_response(RejectedMsg) >>
            [] br = "usage" -> << fixed_response(UsageMsg) >>
            [] br = "empty_after_confirm" -> << fixed_response(EmptyAfterConfirmMsg) >>
            [] br = "no_channels" -> << fixed_response(NoChannelsMsg) >>
            [] br = "preview" -> << preview_response(t) >>
            [] OTHER -> <<>>
    /\ previews' = IF br = "preview" THEN previews \cup { << user_id, t >> } ELSE previews

handle_broadcast == \E u \in UserIds, r \in RawTexts : Handle(u, r)

LoopFrame == UNCHANGED << BROADCAST_CHANNEL_IDS, ALLOWED_BROADCASTERS, body, acks, text_raw,
                          is_confirm, text, responses, previews >>

\* mutant: the pause after a successful post is left out
PostOk_no_sleep ==
    /\ pc = "loop"
    /\ idx < Len(BROADCAST_CHANNEL_IDS)
    /\ calls' = Append(calls, post_call(BROADCAST_CHANNEL_IDS[idx + 1], "ok"))
    /\ sent' = sent + 1
    /\ idx' = idx + 1
    /\ UNCHANGED << pc, failed >>
    /\ LoopFrame

\* one iteration: chat_postMessage returns; sent += 1; time.sleep(0.2)
PostOk ==
    /\ pc = "loop"
    /\ idx < Len(BROADCAST_CHANNEL_IDS)
    /\ calls' = calls \o << post_call(BROADCAST_CHANNEL_IDS[idx + 1], "ok"), sleep_call >>
    /\ sent' = sent + 1
    /\ idx' = idx + 1
    /\ UNCHANGED << pc, failed >>
    /\ LoopFrame

\* mutant: an API error ends the loop
PostSlackApiError_break ==
    /\ pc = "loop"
    /\ idx < Len(BROADCAST_CHANNEL_IDS)
    /\ calls' = Append(calls, post_call(BROADCAST_CHANNEL_IDS[idx + 1], "SlackApiError"))
    /\ failed' = Append(failed, BROADCAST_CHANNEL_IDS[idx + 1])
    /\ idx' = Len(BROADCAST_CHANNEL_IDS)
    /\ UNCHANGED << pc, sent >>
    /\ LoopFrame

\* one iteration: chat_postMessage raises SlackApiError
PostSlackApiError ==
    /\ pc = "loop"
    /\ idx < Len(BROADCAST_CHANNEL_IDS)
    /\ calls' = Append(calls, post_call(BROADCAST_CHANNEL_IDS[idx + 1], "SlackApiError"))
    /\ failed' = Append(failed, BROADCAST_CHANNEL_IDS[idx + 1])
    /\ idx' = idx + 1
    /\ UNCHANGED << pc, sent >>
    /\ LoopFrame

\* mutant: an unexpected exception leaves the handler
PostException_raised ==
    /\ pc = "loop"
    /\ idx < Len(BROADCAST_CHANNEL_IDS)
    /\ calls' = Append(calls, post_call(BROADCAST_CHANNEL_IDS[idx + 1], "Exception"))
    /\ pc' = "returned"
    /\ UNCHANGED << idx, sent, failed >>
    /\ LoopFrame

\* mutant: an unexpected exception is swallowed without being recorded
PostException_unrecorded ==
    /\ pc = "loop"
    /\ idx < Len(BROADCAST_CHANNEL_IDS)
    /\ calls' = Append(calls, post_call(BROADCAST_CHANNEL_IDS[idx + 1], "Exception"))
    /\ idx' = idx + 1
    /\ UNCHANGED << pc, sent, failed >>
    /\ LoopFrame

\* one iteration: chat_postMessage raises any other Exception
PostException ==
    /\ pc = "loop"
    /\ idx < Len(BROADCAST_CHANNEL_IDS)
    /\ calls' = Append(calls, post_call(BROADCAST_CHANNEL_IDS[idx + 1], "Exception"))
    /\ failed' = Append(failed, BROADCAST_CHANNEL_IDS[idx + 1])
    /\ idx' = idx + 1
    /\ UNCHANGED << pc, sent >>
    /\ LoopFrame

\* the loop is exhausted: build the summary, respond, return
Finish ==
    /\ pc = "loop"
    /\ idx = Len(BROADCAST_CHANNEL_IDS)
    /\ responses' = Append(responses, summary_response(sent, failed))
    /\ pc' = "returned"
    /\ UNCHANGED << BROADCAST_CHANNEL_IDS, ALLOWED_BROADCASTERS, body, acks, text_raw,
                    is_confirm, text, idx, sent, failed, calls, previews >>

\* the handler has returned: its frame is gone and the listener waits for the
\* next command
ReturnToListener ==
    /\ pc = "returned"
    /\ pc' = "idle"
    /\ body' = [ user_id |-> None, text |-> NoText ]
    /\ acks' = 0
    /\ text_raw' = <<>>
    /\ is_confirm' = FALSE
    /\ text' = <<>>
    /\ idx' = 0
    /\ sent' = 0
    /\ failed' = <<>>
    /\ responses' = <<>>
    /\ calls' = <<>>
    /\ UNCHANGED << BROADCAST_CHANNEL_IDS, ALLOWED_BROADCASTERS, previews >>

Next ==
    \/ handle_broadcast
    \/ ReturnToListener
    \/ PostOk
    \/ PostSlackApiError
    \/ PostException
    \/ Finish

Spec == Init /\ [][Next]_vars

\* the handler runs synchronously to completion once it has been entered
FairSpec ==
    /\ Spec
    /\ WF_vars(PostOk \/ PostSlackApiError \/ PostException)
    /\ WF_vars(Finish)

\* ===================================================== claim vocabulary
\* the trimmed argument of the current invocation
Arg == strip(IF body.text.present THEN body.text.value ELSE <<>>)

Invoked == pc # "idle"

Authorized == ALLOWED_BROADCASTERS = {} \/ body.user_id \in ALLOWED_BROADCASTERS

\* lengths of the prefixes of s that read CONFIRM: when case is ignored
MarkerPrefixLens(s) == { n \in 0..Len(s) : upper(SubSeq(s, 1, n)) = confirm_prefix }

HasMarker(s) == MarkerPrefixLens(s) # {}

IsPost(c) == c.type = "chat_postMessage"
IsOkPost(c) == IsPost(c) /\ c.outcome = "ok"
IsFailedPost(c) == IsPost(c) /\ c.outcome # "ok"

Posts == SelectSeq(calls, IsPost)
PostChannels == [ i \in 1..Len(Posts) |-> Posts[i].channel ]
OkCount == Len(SelectSeq(calls, IsOkPost))
FailedPosts == SelectSeq(calls, IsFailedPost)
FailedChannels == [ i \in 1..Len(FailedPosts) |-> FailedPosts[i].channel ]

Responded(m) == pc = "returned" /\ responses = << fixed_response(m) >>

NoPreviewResponse == \A i \in DOMAIN responses : responses[i].kind # "preview"

\* =============================================================== claims
\* C1 (as stated): every chat_postMessage of a message M made by an
\* invocation of user u is preceded by an earlier invocation of u that
\* returned the preview of M.
C1_PreviewPrecedesPost ==
    \A i \in DOMAIN calls :
        IsPost(calls[i]) => << body.user_id, calls[i].text >> \in previews

\* C1 (amended): an invocation that posts is one by an authorized user whose
\* trimmed argument begins with the confirmation marker, and it returns no
\* preview; so an invocation that returns a preview posts nothing.  No earlier
\* preview is required.
C1_PostOnlyWhenMarked ==
    Posts # <<>> => Authorized /\ HasMarker(Arg) /\ NoPreviewResponse

C1_Witness ==
    /\ pc = "returned"
    /\ previews = {}
    /\ \E i \in DOMAIN calls : IsOkPost(calls[i])

\* C2: an authorized invocation with a non-empty trimmed argument that does
\* not begin with the marker, with destinations configured, returns exactly
\* the preview of that argument, with the number and the list of the
\* destinations, and calls chat_postMessage zero times.
C2_PreviewExact ==
    (Invoked /\ Authorized /\ Arg # <<>> /\ ~HasMarker(Arg) /\ BROADCAST_CHANNEL_IDS # <<>>)
    => /\ pc = "returned"
       /\ calls = <<>>
       /\ Len(responses) = 1
       /\ responses[1].kind = "preview"
       /\ responses[1].text = Arg
       /\ responses[1].count = Len(BROADCAST_CHANNEL_IDS)
       /\ responses[1].channels_summary = join(BROADCAST_CHANNEL_IDS)

C2_Witness ==
    /\ pc = "returned"
    /\ Len(responses) = 1
    /\ responses[1].kind = "preview"
    /\ Len(BROADCAST_CHANNEL_IDS) = 2
    /\ BROADCAST_CHANNEL_IDS[1] = BROADCAST_CHANNEL_IDS[2]

\* C3: with a non-empty allow-list a user outside it gets the rejection and
\* no send, whatever the text and the destinations; with an empty allow-list
\* nobody is rejected.
C3_Rejection ==
    /\ (Invoked /\ ALLOWED_BROADCASTERS # {} /\ body.user_id \notin ALLOWED_BROADCASTERS)
       => Responded(RejectedMsg) /\ calls = <<>>
    /\ (Invoked /\ ALLOWED_BROADCASTERS = {})
       => \A i \in DOMAIN responses : responses[i] # fixed_response(RejectedMsg)

C3_Witness ==
    /\ Responded(RejectedMsg)
    /\ HasMarker(Arg)
    /\ BROADCAST_CHANNEL_IDS # <<>>

\* C4: when a confirmed broadcast has completed, sent counts the successful
\* posts, failed lists the destinations of the failed ones, sent + len(failed)
\* is the number of destinations, every failed id is a configured one, and
\* the summary reports that count and, when failed is non-empty, its length
\* and contents.
C4_Accounting ==
    (pc = "returned" /\ Posts # <<>>)
    => /\ sent = OkCount
       /\ failed = FailedChannels
       /\ sent + Len(failed) = Len(BROADCAST_CHANNEL_IDS)
       /\ \A i \in DOMAIN failed :
              \E j \in DOMAIN BROADCAST_CHANNEL_IDS : failed[i] = BROADCAST_CHANNEL_IDS[j]
       /\ Len(responses) = 1
       /\ responses[1].kind = "summary"
       /\ responses[1].sent = sent
       /\ responses[1].failed =
              IF failed = <<>> THEN <<>>
              ELSE << [ count |-> Len(failed), channels |-> join(failed) ] >>

C4_Witness ==
    /\ pc = "returned"
    /\ Len(Posts) = 2
    /\ Posts[1].outcome = "ok"
    /\ Posts[2].outcome = "Exception"

\* C5: the confirmed branch attempts the destinations one at a time in the
\* configured order, each exactly once: the attempts made so far are the
\* first idx destinations, a completed broadcast has attempted exactly the
\* configured list, a step adds at most one attempt, and failed is the list
\* of the destinations whose attempt failed, in that order.
C5_InOrderOnce ==
    /\ [](/\ PostChannels = SubSeq(BROADCAST_CHANNEL_IDS, 1, idx)
          /\ (pc = "returned" /\ Posts # <<>> => PostChannels = BROADCAST_CHANNEL_IDS)
          /\ failed = FailedChannels)
    /\ [][pc' = "loop" => Len(Posts') <= Len(Posts) + 1]_vars

C5_Witness ==
    /\ pc = "returned"
    /\ Len(Posts) = 2
    /\ Posts[1].outcome = "SlackApiError"
    /\ Posts[2].outcome = "ok"
    /\ Posts[1].channel # Posts[2].channel

\* C6 (as stated): with no destination configured, every authorized preview
\* or confirm attempt (any non-empty argument) gets the guidance message and
\* no send is made.
C6_GuidanceForEveryAttempt ==
    (Invoked /\ Authorized /\ Arg # <<>> /\ BROADCAST_CHANNEL_IDS = <<>>)
    => Responded(NoChannelsMsg) /\ calls = <<>>

\* C6 (amended): with no destination configured, an authorized invocation
\* makes no send; it gets the guidance message when the message body the
\* handler parsed is non-empty, confirmed or not, and the
\* empty-after-CONFIRM message when the body after the marker is empty.
C6_GuidanceWhenBodyNonEmpty ==
    (Invoked /\ Authorized /\ Arg # <<>> /\ BROADCAST_CHANNEL_IDS = <<>>)
    => /\ calls = <<>>
       /\ (text # <<>> => Responded(NoChannelsMsg))
       /\ (text = <<>> => Responded(EmptyAfterConfirmMsg))

C6_Witness ==
    /\ Responded(NoChannelsMsg)
    /\ HasMarker(Arg)
    /\ is_confirm

\* the argument is the marker followed by nothing but blanks
MarkerAlone(s) == \E n \in MarkerPrefixLens(s) : strip(SubSeq(s, n + 1, Len(s))) = <<>>

\* C7: for an authorized user an argument that is empty after trimming gets
\* the usage message, the marker alone gets the empty-after-CONFIRM message
\* (a different one), neither makes a send, and no send ever carries an empty
\* message body.
C7_EmptyInputs ==
    /\ (Invoked /\ Authorized /\ Arg = <<>>) => Responded(UsageMsg) /\ calls = <<>>
    /\ (Invoked /\ Authorized /\ MarkerAlone(Arg))
       => Responded(EmptyAfterConfirmMsg) /\ ~Responded(UsageMsg) /\ calls = <<>>
    /\ \A i \in DOMAIN calls : IsPost(calls[i]) => calls[i].text # <<>>

C7_Witness ==
    /\ Responded(EmptyAfterConfirmMsg)
    /\ BROADCAST_CHANNEL_IDS = <<>>
    /\ body.text.value # Arg

\* C8: every invocation ends by returning after exactly one respond(): none
\* is made before the loop is over, a handler inside the loop always gets to
\* its return, and every failed send is reported in that one response.
C8_AlwaysResponds ==
    /\ [](/\ (pc = "returned" => Len(responses) = 1 /\ acks = 1)
          /\ (pc = "loop" => responses = <<>>)
          /\ (pc = "returned" /\ FailedPosts # <<>>
              => /\ responses[1].kind = "summary"
                 /\ responses[1].failed =
                        << [ count |-> Len(FailedPosts), channels |-> join(FailedChannels) ] >>))
    /\ (pc = "loop" ~> pc = "returned")

C8_Witness ==
    /\ pc = "returned"
    /\ Len(Posts) = 2
    /\ Posts[1].outcome = "Exception"
    /\ Posts[2].outcome = "SlackApiError"
    /\ Len(responses) = 1

\* C9 (as stated): between every two consecutive send attempts there is a
\* pause, whether the first of them succeeded or failed.
C9_PauseBetweenAllAttempts ==
    \A i \in DOMAIN calls :
        (IsPost(calls[i]) /\ i < Len(calls)) => calls[i + 1] = sleep_call

\* C9 (amended): the pause follows each successful send attempt, the last
\* one included, and nothing else: no pause follows a failed attempt, so two
\* adjacent attempts are separated by a pause exactly when the first of them
\* succeeded.
C9_PauseAfterSuccessOnly ==
    \A i \in DOMAIN calls :
        /\ IsOkPost(calls[i]) => i < Len(calls) /\ calls[i + 1] = sleep_call
        /\ IsFailedPost(calls[i]) => (i = Len(calls) \/ IsPost(calls[i + 1]))
        /\ calls[i] = sleep_call => i > 1 /\ IsOkPost(calls[i - 1])

C9_Witness ==
    /\ pc = "returned"
    /\ Len(calls) = 3
    /\ IsFailedPost(calls[1])
    /\ IsOkPost(calls[2])
    /\ calls[3] = sleep_call

\* C10: whenever the trimmed argument begins with some casing of CONFIRM:,
\* the handler sets is_confirm and takes as message body what follows that
\* prefix, trimmed; otherwise is_confirm is false and the body is the trimmed
\* argument.
C10_MarkerParsing ==
    (Invoked /\ Authorized /\ Arg # <<>>)
    => /\ \A n \in MarkerPrefixLens(Arg) :
              is_confirm /\ text = strip(SubSeq(Arg, n + 1, Len(Arg)))
       /\ (~HasMarker(Arg) => ~is_confirm /\ text = Arg)
====
